---- MODULE Spec2Model ----
(***************************************************************************)
(* Model of src/app.py, the Streamlit page of the NFR-25 DAQ interface.    *)
(*                                                                         *)
(* Streamlit re-runs main() from the top on every user interaction.  One   *)
(* action of this module is one interaction followed by the whole re-run.  *)
(* The state that survives between re-runs is the state of the widgets     *)
(* (the uploader, the "Number of Plots" box and the four keyed select      *)
(* boxes of every slot); everything else is rebuilt by the re-run and is   *)
(* kept in variables so that it can be observed.                           *)
(*                                                                         *)
(* The repository pins no Streamlit release.  Where releases differ, a run *)
(* takes the outcome as a parameter and the actions choose it freely:      *)
(*   keep  a keyed select box whose options changed keeps a value that is  *)
(*         still an option (otherwise it is a new widget, at its default); *)
(*   cull  the state of widgets a run did not draw is dropped even when    *)
(*         the run ended with an uncaught exception (it is always dropped  *)
(*         when the run completed);                                        *)
(*   dup   st.plotly_chart without key raises                              *)
(*         StreamlitDuplicateElementId for a figure equal to one already   *)
(*         displayed by the same run.                                      *)
(*                                                                         *)
(* Conventions.                                                            *)
(*  - Python's slot index i (0-based) is position i+1 of plot_configs.     *)
(*  - An optional value (a select box over an empty list returns None) is  *)
(*    a sequence: <<>> is None, <<v>> is the value v.                      *)
(*  - A dict is the sequence of its [name, df] items in insertion order.   *)
(***************************************************************************)
EXTENDS Integers, Sequences, FiniteSets, TLC

VARIABLES
    uploaded_files,  \* value of the file uploader: sequence of uploaded files
    dataframes,      \* dict built by load_dataframes in the last run
    diagnostics,     \* st.error messages shown by the last run, in order
    num_plots,       \* value of the "Number of Plots" select box
    plot_configs,    \* the list built by the last run, one record per slot
    show_plots,      \* the flag of the last run
    displayed,       \* figures st.plotly_chart displayed in the last run
    raised,          \* uncaught exception that ended the last run, or "none"
    widget_state     \* what Streamlit remembers of the widgets below the
                     \* uploader: the value of the "Number of Plots" box, the
                     \* options of the source boxes and, per slot, the values
                     \* and column options of its four boxes

vars == <<uploaded_files, dataframes, diagnostics, num_plots, plot_configs,
          show_plots, displayed, raised, widget_state>>

----------------------------------------------------------------------------
(* Bounds and the files the user may upload.                               *)

\* Longest batch handed to load_dataframes in SpecLoad.
MaxFiles == 3

\* Index passed to the "Number of Plots" select box.
NumPlotsIndex == 1

NumPlotsOptions == <<1, 2, 3, 4>>

PlotTypeOptions == <<"Line Plot", "Scatter Plot">>

None == <<>>

Some(v) == <<v>>

\* An uploaded file: its name and what decoding its bytes gives, either a
\* table (ok, with its ordered column names and a tag standing for its rows)
\* or an error of the decoding library.
FileA == [name |-> "a.csv",  ok |-> TRUE,  columns |-> <<"t", "v1">>, tag |-> "A", err |-> ""]
FileB == [name |-> "b.xlsx", ok |-> TRUE,  columns |-> <<"t">>,       tag |-> "B", err |-> ""]
FileE == [name |-> "e.xlsx", ok |-> TRUE,  columns |-> <<>>,          tag |-> "E", err |-> ""]
FileX == [name |-> "x.csv",  ok |-> FALSE, columns |-> <<>>,          tag |-> "X", err |-> "No columns to parse from file"]
FileY == [name |-> "y.xlsx", ok |-> FALSE, columns |-> <<>>,          tag |-> "Y", err |-> "File is not a zip file"]
FileD == [name |-> "d.txt",  ok |-> TRUE,  columns |-> <<"t", "v1">>, tag |-> "D", err |-> ""]
FileU == [name |-> "u.CSV",  ok |-> TRUE,  columns |-> <<"t", "v1">>, tag |-> "U", err |-> ""]

Files == {FileA, FileB, FileE, FileX, FileY, FileD, FileU}

\* Batches with unique names, at most MaxFiles long.
LoadBatches ==
    UNION { { s \in [1..n -> Files] : \A i, j \in 1..n : i # j => s[i] # s[j] }
            : n \in 0..MaxFiles }

\* Batches the user uploads during a session.  The uploader is restricted
\* to type=["csv", "xlsx"], matched without regard to case.
SessionBatches ==
    { <<>>, <<FileA, FileB>>, <<FileE, FileA>>, <<FileX, FileU>> }

----------------------------------------------------------------------------
(* Strings and dicts.                                                      *)

\* str.endswith
EndsWith(s, suffix) ==
    /\ Len(s) >= Len(suffix)
    /\ SubSeq(s, Len(s) - Len(suffix) + 1, Len(s)) = suffix

\* How an f-string formats a select box value.
Str(v) == IF v = None THEN "None" ELSE v[1]

\* list(d.keys())
Keys(d) == [k \in 1..Len(d) |-> d[k].name]

HasKey(d, name) == \E k \in 1..Len(d) : d[k].name = name

\* d[name]
Get(d, name) == d[CHOOSE k \in 1..Len(d) : d[k].name = name].df

\* d[name] = df: a new key goes last, an old key keeps its place.
DictSet(d, name, df) ==
    IF HasKey(d, name)
    THEN [k \in 1..Len(d) |-> IF d[k].name = name THEN [name |-> name, df |-> df] ELSE d[k]]
    ELSE Append(d, [name |-> name, df |-> df])

InSeq(v, s) == \E k \in 1..Len(s) : s[k] = v

----------------------------------------------------------------------------
(* load_dataframes                                                         *)

\* pd.read_csv / pd.read_excel on a file that decodes.
DataFrame(file) == [columns |-> file.columns, tag |-> file.tag]

\* One iteration of the loop, mutated: a file that fails to decode is
\* skipped without a message.
LoadOneSilent(acc, file) ==
    IF EndsWith(file.name, ".csv") \/ EndsWith(file.name, ".xlsx")
    THEN IF file.ok
         THEN [acc EXCEPT !.dataframes = DictSet(@, file.name, DataFrame(file))]
         ELSE acc
    ELSE [acc EXCEPT !.errors = Append(@, "Unsupported file type: " \o file.name)]

\* One iteration of the loop over uploaded_files.
LoadOne(acc, file) ==
    IF EndsWith(file.name, ".csv") \/ EndsWith(file.name, ".xlsx")
    THEN IF file.ok
         THEN [acc EXCEPT !.dataframes = DictSet(@, file.name, DataFrame(file))]
         ELSE [acc EXCEPT !.errors =
                  Append(@, "Error loading " \o file.name \o ": " \o file.err)]
    ELSE [acc EXCEPT !.errors = Append(@, "Unsupported file type: " \o file.name)]

RECURSIVE LoadFrom(_, _, _)
LoadFrom(files, k, acc) ==
    IF k > Len(files) THEN acc
    ELSE LoadFrom(files, k + 1, LoadOne(acc, files[k]))

load_dataframes(files) == LoadFrom(files, 1, [dataframes |-> <<>>, errors |-> <<>>])

----------------------------------------------------------------------------
(* plot_data                                                               *)

\* data[column]: the column's values, identified by the table they come from.
Series(data, column) == [frame |-> data.tag, column |-> column]

\* data[x_axis] or data[y_axis] raises KeyError for a key that is no column;
\* it is evaluated only in the two supported branches.
plot_data_raises(data, x_axis, y_axis, plot_type) ==
    /\ InSeq(plot_type, PlotTypeOptions)
    /\ \/ x_axis = None \/ ~InSeq(x_axis[1], data.columns)
       \/ y_axis = None \/ ~InSeq(y_axis[1], data.columns)

\* The figure plot_data returns when it does not raise.
plot_data(data, x_axis, y_axis, plot_title, plot_type) ==
    IF plot_type = "Line Plot"
    THEN [x |-> Series(data, x_axis[1]), y |-> Series(data, y_axis[1]), mode |-> "lines",
          title |-> plot_title, xaxis_title |-> x_axis, yaxis_title |-> y_axis]
    ELSE IF plot_type = "Scatter Plot"
    THEN [x |-> Series(data, x_axis[1]), y |-> Series(data, y_axis[1]), mode |-> "markers",
          title |-> plot_title, xaxis_title |-> x_axis, yaxis_title |-> y_axis]
    ELSE [x |-> None, y |-> None, mode |-> "", title |-> "",
          xaxis_title |-> None, yaxis_title |-> None]

\* st.error of plot_data's last branch.
plot_data_errors(plot_type) ==
    IF InSeq(plot_type, PlotTypeOptions) THEN <<>>
    ELSE << "Unsupported plot type: " \o plot_type >>

----------------------------------------------------------------------------
(* Widgets                                                                 *)

\* The default, mutated: the last option instead of the first.
SelectboxDefaultLast(options) ==
    IF Len(options) > 0 THEN Some(options[Len(options)]) ELSE None

\* What a select box returns when it has no state: options[index], index 0.
SelectboxDefault(options) == IF Len(options) > 0 THEN Some(options[1]) ELSE None

\* st.selectbox(label, options, key=...) in a run in which the user did not
\* touch it.  had: Streamlit remembers the widget, drawn over prevOptions
\* and holding prevValue.  A widget drawn over the same options keeps its
\* value.  When the options changed the outcome depends on the Streamlit
\* release (the repository pins none): releases that identify a widget by
\* its options have a new widget and return the default; releases that
\* identify it by its key keep a value that is still an option (keep) and
\* return the default otherwise.
Selectbox(options, had, prevOptions, prevValue, keep) ==
    IF had /\ prevOptions = options THEN prevValue
    ELSE IF had /\ keep /\ prevValue # None /\ InSeq(prevValue[1], options) THEN prevValue
    ELSE SelectboxDefault(options)

----------------------------------------------------------------------------
(* main                                                                    *)

\* An interaction: which widget the user touched, and the value given.
NoEvent == [kind |-> "none", slot |-> 0, value |-> None]

Event(kind, slot, value) == [kind |-> kind, slot |-> slot, value |-> Some(value)]

\* f"{file_name} - {y_axis} vs {x_axis}"
Title(file_name, x_axis, y_axis) ==
    file_name \o " - " \o Str(y_axis) \o " vs " \o Str(x_axis)

\* The body of the loop over range(num_plots) for slot i (position i of
\* plot_configs), given the dict dfs of this run, the remembered options
\* of the source boxes and slots, and the interaction ev.
SlotConfig(i, dfs, prevNames, prevConfigs, ev, keep) ==
    LET had == i <= Len(prevConfigs)
        prev == prevConfigs[i]
        touched(kind) == ev.kind = kind /\ ev.slot = i
        file_name ==
            IF touched("file_name") THEN ev.value[1]
            ELSE Selectbox(Keys(dfs), had, prevNames,
                           IF had THEN Some(prev.file_name) ELSE None, keep)[1]
        df == Get(dfs, file_name)
        x_axis ==
            IF touched("x_axis") THEN ev.value
            ELSE Selectbox(df.columns, had, IF had THEN prev.df.columns ELSE <<>>,
                           IF had THEN prev.x_axis ELSE None, keep)
        y_axis ==
            IF touched("y_axis") THEN ev.value
            ELSE Selectbox(df.columns, had, IF had THEN prev.df.columns ELSE <<>>,
                           IF had THEN prev.y_axis ELSE None, keep)
        plot_type ==
            IF touched("plot_type") THEN ev.value[1]
            ELSE Selectbox(PlotTypeOptions, had, PlotTypeOptions,
                           IF had THEN Some(prev.plot_type) ELSE None, keep)[1]
    IN  [file_name |-> file_name, x_axis |-> x_axis, y_axis |-> y_axis,
         plot_type |-> plot_type, df |-> df,
         title |-> Title(file_name, x_axis, y_axis)]

\* The loop over enumerate(plot_configs): figures displayed so far, and the
\* exception that ends the run at the first slot whose plot_data raises or
\* whose st.plotly_chart raises (dup: on a figure equal to one displayed
\* earlier in the loop).
RECURSIVE RenderFrom(_, _, _, _)
RenderFrom(configs, i, out, dup) ==
    IF i > Len(configs) THEN out
    ELSE LET c == configs[i]
             fig == plot_data(c.df, c.x_axis, c.y_axis, c.title, c.plot_type)
             called == [out EXCEPT !.errors = @ \o plot_data_errors(c.plot_type)]
         IN
         IF plot_data_raises(c.df, c.x_axis, c.y_axis, c.plot_type)
         THEN [out EXCEPT !.raised = "KeyError"]
         ELSE IF dup /\ InSeq(fig, out.figures)
         THEN [called EXCEPT !.raised = "StreamlitDuplicateElementId"]
         ELSE RenderFrom(configs, i + 1,
                         [called EXCEPT !.figures = Append(@, fig)], dup)

NoRender == [figures |-> <<>>, errors |-> <<>>, raised |-> "none"]

\* The flag, mutated: it starts True, so every run renders.
ShowPlotsAlways(before, button) == TRUE

\* The flag, mutated: it is not cleared at the start of the run.
ShowPlotsSticky(before, button) == before \/ button

\* show_plots of a run: False, then True if the button fired in this run.
\* before is the flag of the previous run, which the run does not read.
ShowPlots(before, button) == IF button THEN TRUE ELSE FALSE

\* The list plot_configs, mutated: a slot's title is only computed when the
\* slot is first drawn.
ConfigsTitleOnce(n, dfs, prevNames, prevConfigs, ev, keep) ==
    [i \in 1..n |->
        LET c == SlotConfig(i, dfs, prevNames, prevConfigs, ev, keep) IN
        IF i <= Len(prevConfigs) THEN [c EXCEPT !.title = prevConfigs[i].title] ELSE c]

\* The list plot_configs, mutated: every slot's widgets share slot 0's keys.
ConfigsSharedKeys(n, dfs, prevNames, prevConfigs, ev, keep) ==
    [i \in 1..n |->
        SlotConfig(i, dfs, prevNames, prevConfigs, [ev EXCEPT !.slot = i], keep)]

\* The list plot_configs built by the loop over range(num_plots).
Configs(n, dfs, prevNames, prevConfigs, ev, keep) ==
    [i \in 1..n |-> SlotConfig(i, dfs, prevNames, prevConfigs, ev, keep)]

\* The default of the "Number of Plots" box.
DefaultNumPlots == NumPlotsOptions[NumPlotsIndex + 1]

\* No widget below the uploader is remembered.
NoWidgets == [num_plots |-> None, names |-> <<>>, slots |-> <<>>]

\* One run of main() over the uploader's value files, after interaction ev,
\* under the release's outcomes keep, cull and dup.  The result holds the
\* new value of every variable but uploaded_files.
main(files, ev, keep, cull, dup) ==
    IF Len(files) = 0
    THEN \* The welcome page: the run completes, having drawn no widget.
         [dataframes |-> <<>>, diagnostics |-> <<>>, num_plots |-> DefaultNumPlots,
          plot_configs |-> <<>>, show_plots |-> FALSE, displayed |-> <<>>,
          raised |-> "none", widget_state |-> NoWidgets]
    ELSE
    LET loaded == load_dataframes(files) IN
    IF Len(loaded.dataframes) = 0
    THEN \* pd.concat of no objects raises ValueError; nothing below is drawn.
         LET left == IF cull THEN NoWidgets ELSE widget_state IN
         [dataframes |-> <<>>, diagnostics |-> loaded.errors,
          num_plots |-> IF left.num_plots = None THEN DefaultNumPlots
                        ELSE left.num_plots[1],
          plot_configs |-> <<>>,
          show_plots |-> FALSE, displayed |-> <<>>, raised |-> "ValueError",
          widget_state |-> left]
    ELSE
    LET n == IF ev.kind = "num_plots" THEN ev.value[1]
             ELSE IF widget_state.num_plots # None THEN widget_state.num_plots[1]
             ELSE DefaultNumPlots
        configs == Configs(n, loaded.dataframes, widget_state.names,
                           widget_state.slots, ev, keep)
        show == ShowPlots(show_plots, ev.kind = "button")
        out == IF show THEN RenderFrom(configs, 1, NoRender, dup) ELSE NoRender
    IN  \* Every widget Streamlit remembers was drawn again by this run.
        [dataframes |-> loaded.dataframes,
         diagnostics |-> loaded.errors \o out.errors,
         num_plots |-> n, plot_configs |-> configs, show_plots |-> show,
         displayed |-> out.figures, raised |-> out.raised,
         widget_state |-> [num_plots |-> Some(n), names |-> Keys(loaded.dataframes),
                           slots |-> configs]]

\* The variables after a run.
Rerun(files, ev, keep, cull, dup) ==
    \E r \in {main(files, ev, keep, cull, dup)} :
        /\ uploaded_files' = files
        /\ dataframes' = r.dataframes
        /\ diagnostics' = r.diagnostics
        /\ num_plots' = r.num_plots
        /\ plot_configs' = r.plot_configs
        /\ show_plots' = r.show_plots
        /\ displayed' = r.displayed
        /\ raised' = r.raised
        /\ widget_state' = r.widget_state

----------------------------------------------------------------------------
(* The session: one action per interaction.                                *)

Slots == 1..Len(plot_configs)

\* Before the first upload: the welcome page.
Init ==
    /\ uploaded_files = <<>>
    /\ dataframes = <<>>
    /\ diagnostics = <<>>
    /\ num_plots = DefaultNumPlots
    /\ plot_configs = <<>>
    /\ show_plots = FALSE
    /\ displayed = <<>>
    /\ raised = "none"
    /\ widget_state = NoWidgets

\* The user changes the uploaded files.  A run reads keep only if it draws
\* the slots and cull only if it raises before them, so one choice stands
\* for both; no figure is displayed, so dup plays no part.
Upload ==
    \E batch \in SessionBatches \ {uploaded_files}, choice \in BOOLEAN :
        Rerun(batch, NoEvent, choice, choice, FALSE)

\* The user picks another number of plots.  (No select box's options change
\* in this run, and it does not raise.)
SetNumPlots ==
    /\ Len(plot_configs) > 0
    /\ \E n \in 1..Len(NumPlotsOptions) :
        /\ NumPlotsOptions[n] # num_plots
        /\ Rerun(uploaded_files, Event("num_plots", 0, NumPlotsOptions[n]),
                 FALSE, FALSE, FALSE)

\* The user picks another data source for a slot.
SetFileName ==
    \E i \in Slots, k \in 1..Len(dataframes), keep \in BOOLEAN :
        /\ dataframes[k].name # plot_configs[i].file_name
        /\ Rerun(uploaded_files, Event("file_name", i, dataframes[k].name),
                 keep, FALSE, FALSE)

\* The user picks another X column for a slot.
SetXAxis ==
    \E i \in Slots :
        \E k \in 1..Len(plot_configs[i].df.columns) :
            /\ Some(plot_configs[i].df.columns[k]) # plot_configs[i].x_axis
            /\ Rerun(uploaded_files, Event("x_axis", i, plot_configs[i].df.columns[k]),
                     FALSE, FALSE, FALSE)

\* The user picks another Y column for a slot.
SetYAxis ==
    \E i \in Slots :
        \E k \in 1..Len(plot_configs[i].df.columns) :
            /\ Some(plot_configs[i].df.columns[k]) # plot_configs[i].y_axis
            /\ Rerun(uploaded_files, Event("y_axis", i, plot_configs[i].df.columns[k]),
                     FALSE, FALSE, FALSE)

\* The user picks the other plot type for a slot.
SetPlotType ==
    \E i \in Slots, k \in 1..Len(PlotTypeOptions) :
        /\ PlotTypeOptions[k] # plot_configs[i].plot_type
        /\ Rerun(uploaded_files, Event("plot_type", i, PlotTypeOptions[k]),
                 FALSE, FALSE, FALSE)

\* The user presses "Generate Plots".  Every remembered widget is drawn
\* before the loop that may raise, so cull plays no part.
Generate ==
    /\ Len(plot_configs) > 0
    /\ \E dup \in BOOLEAN :
        Rerun(uploaded_files, Event("button", 0, TRUE), FALSE, FALSE, dup)

Next ==
    \/ Upload
    \/ SetNumPlots
    \/ SetFileName
    \/ SetXAxis
    \/ SetYAxis
    \/ SetPlotType
    \/ Generate

Spec == Init /\ [][Next]_vars

----------------------------------------------------------------------------
(* load_dataframes on its own: every batch of uniquely named files.        *)

InitLoad ==
    /\ uploaded_files \in LoadBatches
    /\ dataframes = <<>>
    /\ diagnostics = <<>>
    /\ num_plots = DefaultNumPlots
    /\ plot_configs = <<>>
    /\ show_plots = FALSE
    /\ displayed = <<>>
    /\ raised = "none"
    /\ widget_state = NoWidgets

\* dataframes = load_dataframes(uploaded_files), as main's first step.
LoadFiles ==
    /\ Len(uploaded_files) > 0
    /\ dataframes = <<>> /\ diagnostics = <<>>
    /\ dataframes' = load_dataframes(uploaded_files).dataframes
    /\ diagnostics' = load_dataframes(uploaded_files).errors
    /\ UNCHANGED <<uploaded_files, num_plots, plot_configs, show_plots, displayed, raised,
                   widget_state>>

NextLoad == LoadFiles

SpecLoad == InitLoad /\ [][NextLoad]_vars

----------------------------------------------------------------------------
(* Vocabulary of the properties.                                           *)

Recognized(name) == EndsWith(name, ".csv") \/ EndsWith(name, ".xlsx")

Loadable(file) == Recognized(file.name) /\ file.ok

Contains(s, part) ==
    \E k \in 1..(Len(s) - Len(part) + 1) : SubSeq(s, k, k + Len(part) - 1) = part

Count(S) == Cardinality(S)

LoadRan == Len(dataframes) > 0 \/ Len(diagnostics) > 0

UploadedSet == { uploaded_files[k] : k \in 1..Len(uploaded_files) }

FigureOf(c) == plot_data(c.df, c.x_axis, c.y_axis, c.title, c.plot_type)

WouldRender(c) == ~plot_data_raises(c.df, c.x_axis, c.y_axis, c.plot_type)

IsColumn(v, df) == v # None /\ InSeq(v[1], df.columns)

\* The run reached the loop that renders: it displayed a figure or was
\* ended by plot_data or st.plotly_chart.
Rendered ==
    displayed # <<>> \/ raised = "KeyError" \/ raised = "StreamlitDuplicateElementId"

Common == 1..(IF Len(plot_configs) < Len(plot_configs') THEN Len(plot_configs)
                                                        ELSE Len(plot_configs'))

----------------------------------------------------------------------------
(* C1 (SpecLoad).  After load_dataframes has run on a batch of uniquely    *)
(* named files, the keys of the mapping are exactly the names of the files *)
(* with a recognized extension that decode, each mapped to its own table,  *)
(* in upload order; every other file is absent and is named by exactly one *)
(* diagnostic, there are no further diagnostics, and a failing file does   *)
(* not stop the files after it.  If every file fails the mapping is empty. *)
C1_LoadContract ==
    LoadRan =>
        /\ \A f \in UploadedSet : Loadable(f) <=> HasKey(dataframes, f.name)
        /\ \A k \in 1..Len(dataframes) :
              \E f \in UploadedSet :
                  /\ f.name = dataframes[k].name
                  /\ dataframes[k].df = [columns |-> f.columns, tag |-> f.tag]
        /\ \A j, k \in 1..Len(dataframes) : j # k => dataframes[j].name # dataframes[k].name
        /\ \A f \in UploadedSet :
              ~Loadable(f) =>
                  Count({ k \in 1..Len(diagnostics) : Contains(diagnostics[k], f.name) }) = 1
        /\ Len(diagnostics) = Count({ f \in UploadedSet : ~Loadable(f) })
        /\ ((\A f \in UploadedSet : ~Loadable(f)) => dataframes = <<>>)

\* A batch whose first file is unsupported, whose second fails to decode and
\* whose third loads.
C1_Witness ==
    /\ Len(uploaded_files) = 3
    /\ ~Recognized(uploaded_files[1].name)
    /\ Recognized(uploaded_files[2].name) /\ ~uploaded_files[2].ok
    /\ Loadable(uploaded_files[3])
    /\ Len(dataframes) = 1 /\ Len(diagnostics) = 2

----------------------------------------------------------------------------
(* C2.  A run in which the slot count or any field of any slot changes     *)
(* calls plot_data for no slot and displays no figure; a run that displays *)
(* a figure or calls plot_data is a run of the generate trigger.           *)
C2_NoRenderOnChange ==
    [][ /\ (num_plots' # num_plots \/ plot_configs' # plot_configs) => ~Rendered'
        /\ Rendered' => Generate ]_vars

\* A configuration changed away from the defaults with nothing displayed.
C2_Witness ==
    /\ num_plots = 3 /\ Len(plot_configs) = 3
    /\ plot_configs[1].x_axis = Some("v1")
    /\ plot_configs[2].file_name = "b.xlsx"
    /\ plot_configs[3].plot_type = "Scatter Plot"
    /\ ~show_plots /\ displayed = <<>> /\ raised = "none"

----------------------------------------------------------------------------
(* C3, as claimed.  A run of the generate trigger displays exactly         *)
(* num_plots figures, num_plots in 1..4, figure i being the one built from *)
(* slot i's own source, columns, title and plot type.                      *)
C3_OneFigurePerSlot ==
    show_plots =>
        /\ num_plots \in 1..4
        /\ Len(plot_configs) = num_plots
        /\ Len(displayed) = num_plots
        /\ \A i \in 1..Len(displayed) :
              /\ displayed[i] = FigureOf(plot_configs[i])
              /\ displayed[i].x.frame = Get(dataframes, plot_configs[i].file_name).tag

----------------------------------------------------------------------------
(* C4, as claimed.  When a generate trigger renders, every slot's x_axis   *)
(* and y_axis are columns of the table of the slot's selected source.      *)
C4_ColumnsExistAtRender ==
    show_plots =>
        \A i \in Slots :
            /\ plot_configs[i].df = Get(dataframes, plot_configs[i].file_name)
            /\ IsColumn(plot_configs[i].x_axis, plot_configs[i].df)
            /\ IsColumn(plot_configs[i].y_axis, plot_configs[i].df)

----------------------------------------------------------------------------
(* C5, as claimed.  In a generate batch every slot whose own rendering     *)
(* would succeed (plot_data does not raise for it, and no other slot's     *)
(* figure equals its own) has its figure displayed, whatever happens to    *)
(* the other slots.                                                        *)
C5_FailureIsolation ==
    show_plots =>
        \A j \in Slots :
            (/\ WouldRender(plot_configs[j])
             /\ \A k \in Slots \ {j} :
                   WouldRender(plot_configs[k])
                       => FigureOf(plot_configs[k]) # FigureOf(plot_configs[j]))
                => InSeq(FigureOf(plot_configs[j]), displayed)

----------------------------------------------------------------------------
(* C6, as claimed.  When files are uploaded and none loads, the run ends   *)
(* without an exception and offers no widget and no figure.                *)
C6_EmptyCatalogNoCrash ==
    (Len(uploaded_files) > 0 /\ Len(dataframes) = 0) =>
        /\ raised = "none"
        /\ plot_configs = <<>> /\ displayed = <<>> /\ ~show_plots

----------------------------------------------------------------------------
(* C7.  A default-chosen field of a slot.  In a run that does not change   *)
(* the upload: a slot added by growing the slot count has the first        *)
(* loaded dataset as source, "Line Plot" as plot type, and default columns;*)
(* a slot whose source changed has default columns for every column field  *)
(* whose previous selection the new source lacks.  DefaultsAre(yIndex)     *)
(* states it with the default x_axis the source's first column and the     *)
(* default y_axis the source's column number yIndex (when the source has   *)
(* that many columns).                                                     *)
DefaultsAre(yIndex) ==
    \A i \in 1..Len(plot_configs') :
        LET c == plot_configs'[i]
            cols == c.df.columns
            xDefault == Len(cols) >= 1 => c.x_axis = Some(cols[1])
            yDefault == Len(cols) >= yIndex => c.y_axis = Some(cols[yIndex])
        IN  /\ (i > Len(plot_configs) /\ Len(plot_configs) > 0
                  /\ uploaded_files' = uploaded_files) =>
                /\ c.file_name = dataframes'[1].name
                /\ c.plot_type = "Line Plot"
                /\ xDefault /\ yDefault
            /\ (i <= Len(plot_configs) /\ uploaded_files' = uploaded_files
                  /\ c.file_name # plot_configs[i].file_name) =>
                /\ ~IsColumn(plot_configs[i].x_axis, c.df) => xDefault
                /\ ~IsColumn(plot_configs[i].y_axis, c.df) => yDefault

\* C7, as claimed: the default y_axis is the source's second column.
C7_DefaultYSecond == [][DefaultsAre(2)]_vars

\* C7, amended: the default y_axis is the source's first column, like the
\* default x_axis; over a source without columns both are None.
C7_DefaultYFirst ==
    [][ /\ DefaultsAre(1)
        /\ \A i \in 1..Len(plot_configs') :
              Len(plot_configs'[i].df.columns) = 0 =>
                  plot_configs'[i].x_axis = None /\ plot_configs'[i].y_axis = None
        /\ (num_plots' > num_plots /\ uploaded_files' = uploaded_files)
              => Len(plot_configs') > Len(plot_configs) ]_vars

\* Slot 0 was reconfigured, then the count grew to 3: slot 2 is all defaults.
C7_Witness ==
    /\ Len(plot_configs) = 3
    /\ dataframes[1].name = "a.csv"
    /\ plot_configs[1].y_axis = Some("v1") /\ plot_configs[1].plot_type = "Scatter Plot"
    /\ plot_configs[3].file_name = "a.csv"
    /\ plot_configs[3].x_axis = Some("t") /\ plot_configs[3].y_axis = Some("t")
    /\ plot_configs[3].plot_type = "Line Plot"

----------------------------------------------------------------------------
(* C8.  In a run that does not change the upload: the list has num_plots   *)
(* slots; if the slot count changed, every slot below both the old and the *)
(* new count is as it was; otherwise at most one slot differs from what it *)
(* was.                                                                    *)
C8_SlotsIndependent ==
    [][ (uploaded_files' = uploaded_files /\ Len(plot_configs) > 0) =>
            /\ Len(plot_configs') = num_plots'
            /\ num_plots' # num_plots =>
                  /\ Len(plot_configs) = num_plots
                  /\ \A j \in Common : plot_configs'[j] = plot_configs[j]
            /\ \A i, j \in Common :
                  (i # j /\ plot_configs'[i] # plot_configs[i])
                      => plot_configs'[j] = plot_configs[j] ]_vars

\* Three slots, each configured differently from the other two.
C8_Witness ==
    /\ Len(plot_configs) = 3
    /\ plot_configs[1].file_name = "a.csv" /\ plot_configs[1].x_axis = Some("v1")
    /\ plot_configs[2].file_name = "b.xlsx"
    /\ plot_configs[3].file_name = "a.csv" /\ plot_configs[3].x_axis = Some("t")
    /\ plot_configs[3].plot_type = "Scatter Plot"

----------------------------------------------------------------------------
(* C9.  Every slot's title is "{file_name} - {y_axis} vs {x_axis}" over    *)
(* the slot's current values, and every displayed figure carries the title *)
(* of its slot.                                                            *)
C9_TitleCurrent ==
    /\ \A i \in Slots :
          plot_configs[i].title =
              plot_configs[i].file_name \o " - " \o Str(plot_configs[i].y_axis)
                  \o " vs " \o Str(plot_configs[i].x_axis)
    /\ \A k \in 1..Len(displayed) : displayed[k].title = plot_configs[k].title

\* Two figures displayed after both slots were reconfigured.
C9_Witness ==
    /\ show_plots /\ Len(displayed) = 2
    /\ displayed[1].title = "a.csv - v1 vs t"
    /\ displayed[2].title = "b.xlsx - t vs t"

----------------------------------------------------------------------------
(* C10.  A run leaves the flag false and displays no figure unless it is a *)
(* run of the generate trigger, whatever was displayed before it; and what *)
(* a run displays is built, slot by slot, from the slot values of that     *)
(* same run.                                                               *)
C10_FiguresDoNotOutliveTurn ==
    [][ /\ (~show_plots' /\ displayed' = <<>>) \/ Generate
        /\ Len(displayed') <= Len(plot_configs')
        /\ \A k \in 1..Len(displayed') :
              displayed'[k] = FigureOf(plot_configs'[k]) ]_vars

\* Figures on display for a configuration that is not the default one.
C10_Witness ==
    /\ show_plots /\ Len(displayed) = 3
    /\ displayed[1].mode = "markers"
    /\ displayed[2].x.column = "v1"
    /\ displayed[3].x.frame = "B"

====
